---- MODULE Spec2Model ----
(***************************************************************************)
(* kksk.py: the keyword matcher (normalize_content, should_match) and the  *)
(* peak-window finder (find_peak_windows: a two-pointer density scan, a    *)
(* stable sort by count, a greedy selection of non-overlapping windows).   *)
(*                                                                         *)
(* Spec      runs find_peak_windows on a bounded family of sorted inputs.  *)
(* SpecMatch applies should_match to bounded (content, keyword) pairs.     *)
(***************************************************************************)
EXTENDS Integers, Sequences, FiniteSets, TLC

VARIABLES
    times,       \* find_peak_windows: the argument, a list of (timestamp, filename, first_p)
    window_sec,  \* find_peak_windows: the argument window_sec
    pc,          \* position in find_peak_windows: "scan", "select", "done" ("idle": not called)
    left,        \* the left pointer of the scan (0-based, as in the code)
    right,       \* the loop variable of `for right in range(len(times))`: next index to visit
    windows,     \* the list `windows`: emission order during the scan, sorted afterwards
    selected,    \* the list `selected`
    idx,         \* number of elements of `windows` that `for win in windows` has consumed
    emitted,     \* history: for each emitted window, the pointer pair that defined it
    content,     \* should_match: the argument content (a sequence of characters)
    keyword,     \* should_match: the argument keyword
    matched,     \* should_match: the returned value ("none" before the call)
    mpc          \* position of the matcher: "call", "returned" ("idle": not called)

vars == <<times, window_sec, pc, left, right, windows, selected, idx, emitted,
          content, keyword, matched, mpc>>

peakVars == <<times, window_sec, pc, left, right, windows, selected, idx, emitted>>
matchVars == <<content, keyword, matched, mpc>>

-----------------------------------------------------------------------------
(* Bounds of the model *)

\* longest input whose gaps between successive timestamps are chosen freely
MaxLen == 6
\* longest evenly spaced input (more than TopK events, so the cap of 10 is met)
MaxLongLen == 12
\* longest comment text / keyword given to should_match
MaxContentLen == 3
MaxKeywordLen == 2

\* gaps (ms) between successive timestamps: duplicates, exactly 30 s, 31 s
Deltas == {0, 30000, 31000}
\* the gap of an evenly spaced input
LongGaps == {0, 30000, 31000}
\* window lengths (s); 60 is the default of find_peak_windows
DefaultWindowSec == 60
WindowSecs == {0, 30, DefaultWindowSec}

-----------------------------------------------------------------------------
(* Helpers *)

Min(a, b) == IF a <= b THEN a ELSE b

Range(s) == {s[i] : i \in DOMAIN s}

RECURSIVE SumTo(_, _)
SumTo(d, k) == IF k = 0 THEN 0 ELSE SumTo(d, k - 1) + d[k]

\* the timestamps 0, d1, d1+d2, ... of n events
TsOf(d, n) == [i \in 1..n |-> SumTo(d, i - 1)]

\* the list parse_timestamps returns for the timestamps ts: sorted by timestamp,
\* the events up to position split coming from file "a", the later ones from "b";
\* first_p (the first field of the p attribute) is the event's position
MkTimes(ts, split) ==
    [i \in 1..Len(ts) |->
        [ts |-> ts[i], file |-> IF i <= split THEN "a" ELSE "b", first_p |-> i - 1]]

ShortTs == UNION {{TsOf(d, n) : d \in [1..(n - 1) -> Deltas]} : n \in 0..MaxLen}
LongTs == {[i \in 1..n |-> (i - 1) * g] : n \in (MaxLen + 1)..MaxLongLen, g \in LongGaps}

Inputs == {MkTimes(ts, split) : ts \in ShortTs, split \in 0..1}
          \cup {MkTimes(ts, Len(ts) - 1) : ts \in ShortTs \cup LongTs}

-----------------------------------------------------------------------------
(* find_peak_windows *)

\* times[i][0] for the 0-based index i
Ts(i) == times[i + 1].ts

\* window_ms = window_sec * 1000
WindowMs == window_sec * 1000

\* mutant: `if` in place of `while`: left moves at most one step per right index
AdvanceLeftOnce(l, r) == IF Ts(r) - Ts(l) > WindowMs THEN l + 1 ELSE l

\* while times[right][0] - times[left][0] > window_ms: left += 1
RECURSIVE AdvanceLeft(_, _)
AdvanceLeft(l, r) == IF Ts(r) - Ts(l) > WindowMs THEN AdvanceLeft(l + 1, r) ELSE l

\* source_files: a defaultdict(int) incremented for each event of [left, right]
Sources(l, r) ==
    [f \in {times[i + 1].file : i \in l..r} |->
        Cardinality({i \in l..r : times[i + 1].file = f})]

\* mutant: the window's start taken from the first event of the input
WindowFromFirst(l, r) ==
    [count |-> r - l + 1, start |-> Ts(0), end |-> Ts(r),
     sources |-> Sources(l, r), first_video_time |-> times[l + 1].first_p]

\* the dict appended to `windows`
Window(l, r) ==
    [count |-> r - l + 1, start |-> Ts(l), end |-> Ts(r),
     sources |-> Sources(l, r), first_video_time |-> times[l + 1].first_p]

\* one iteration of `for right in range(len(times))`
ScanStep ==
    /\ pc = "scan"
    /\ right < Len(times)
    /\ LET l == AdvanceLeft(left, right)
           count == right - l + 1
       IN /\ left' = l
          /\ IF count > 0
             THEN /\ windows' = Append(windows, Window(l, right))
                  /\ emitted' = Append(emitted,
                         [left |-> l, right |-> right, win |-> Window(l, right)])
             ELSE UNCHANGED <<windows, emitted>>
    /\ right' = right + 1
    /\ UNCHANGED <<times, window_sec, pc, selected, idx, matchVars>>

\* mutant: a new window is put before the windows of equal count
InsertBeforeTies(s, w) ==
    LET p == Cardinality({i \in 1..Len(s) : s[i].count > w.count})
    IN SubSeq(s, 1, p) \o <<w>> \o SubSeq(s, p + 1, Len(s))

\* w put into the count-descending list s after every window of count >= w.count
InsertStable(s, w) ==
    LET p == Cardinality({i \in 1..Len(s) : s[i].count >= w.count})
    IN SubSeq(s, 1, p) \o <<w>> \o SubSeq(s, p + 1, Len(s))

RECURSIVE SortPrefix(_, _)
SortPrefix(ws, k) == IF k = 0 THEN <<>> ELSE InsertStable(SortPrefix(ws, k - 1), ws[k])

\* windows.sort(reverse=True, key=count): a stable sort, equal counts keep their order
SortByCountDesc(ws) == SortPrefix(ws, Len(ws))

\* the scan is over: windows.sort(...), selected = []
Sort ==
    /\ pc = "scan"
    /\ right = Len(times)
    /\ windows' = SortByCountDesc(windows)
    /\ selected' = <<>>
    /\ idx' = 0
    /\ pc' = "select"
    /\ UNCHANGED <<times, window_sec, left, right, emitted, matchVars>>

\* mutant: closed intervals, touching windows overlap
OverlapsClosed(win, selected_win) ==
    win.start <= selected_win.end /\ win.end >= selected_win.start

\* mutant: the second comparison made against the wrong end
OverlapsWrongEnd(win, selected_win) ==
    win.start < selected_win.end /\ win.end > selected_win.end

\* win['start'] < selected_win['end'] and win['end'] > selected_win['start']
Overlaps(win, selected_win) ==
    win.start < selected_win.end /\ win.end > selected_win.start

\* mutant: only the window accepted last is compared
OverlapsLast(win, sel) ==
    sel # <<>> /\ Overlaps(win, sel[Len(sel)])

\* the inner `for selected_win in selected` loop: overlap with any accepted window
OverlapsAny(win, sel) == \E i \in 1..Len(sel) : Overlaps(win, sel[i])

\* the cap of the selection
TopK == 10

\* mutant: the cap tested after it has been passed
FullLate(sel) == Len(sel) > TopK

\* if len(selected) >= 10: break
Full(sel) == Len(sel) >= TopK

\* `for win in windows`: win overlaps no accepted window and is appended
Accept ==
    /\ pc = "select"
    /\ idx < Len(windows)
    /\ ~OverlapsAny(windows[idx + 1], selected)
    /\ selected' = Append(selected, windows[idx + 1])
    /\ idx' = idx + 1
    /\ pc' = IF Full(selected') THEN "done" ELSE "select"
    /\ UNCHANGED <<times, window_sec, left, right, windows, emitted, matchVars>>

\* `for win in windows`: win overlaps an accepted window and is skipped
Reject ==
    /\ pc = "select"
    /\ idx < Len(windows)
    /\ OverlapsAny(windows[idx + 1], selected)
    /\ idx' = idx + 1
    /\ UNCHANGED <<times, window_sec, pc, left, right, windows, selected, emitted, matchVars>>

\* the candidates are exhausted: return selected
Return ==
    /\ pc = "select"
    /\ idx = Len(windows)
    /\ pc' = "done"
    /\ UNCHANGED <<times, window_sec, left, right, windows, selected, idx, emitted, matchVars>>

\* the state on entry to find_peak_windows: windows = [], left = 0
Init ==
    /\ times \in Inputs
    /\ window_sec \in WindowSecs
    /\ pc = "scan"
    /\ left = 0
    /\ right = 0
    /\ windows = <<>>
    /\ selected = <<>>
    /\ idx = 0
    /\ emitted = <<>>
    /\ content = <<>>
    /\ keyword = <<>>
    /\ matched = "none"
    /\ mpc = "idle"

Next == ScanStep \/ Sort \/ Accept \/ Reject \/ Return

Spec == Init /\ [][Next]_vars

-----------------------------------------------------------------------------
(* normalize_content, should_match *)

\* the characters of the texts: a lower-case and an upper-case letter, a digit,
\* the half-width question mark and the full-width one (U+FF1F)
HalfQ == "?"
FullQ == "U+FF1F"
Letters == {"k", "K"}
Chars == Letters \cup {"1", HalfQ, FullQ}
QuestionMarks == {FullQ, HalfQ}

\* the strings of at most n characters
Strings(n) == UNION {[1..k -> Chars] : k \in 0..n}

RECURSIVE DropMarks(_)
DropMarks(s) ==
    IF s # <<>> /\ Head(s) \in QuestionMarks THEN DropMarks(Tail(s)) ELSE s

\* re.sub(r'[？?]+', '?', content): each maximal run of question marks becomes one '?'
RECURSIVE Collapse(_)
Collapse(s) ==
    IF s = <<>> THEN <<>>
    ELSE IF Head(s) \in QuestionMarks
         THEN <<HalfQ>> \o Collapse(DropMarks(Tail(s)))
         ELSE <<Head(s)>> \o Collapse(Tail(s))

\* any(c in keyword for c in ['？', '?']) guards the substitution
normalize_content(c, k) ==
    IF \E i \in 1..Len(k) : k[i] \in QuestionMarks THEN Collapse(c) ELSE c

\* str.isalpha(): non-empty and every character a letter
isalpha(s) == s # <<>> /\ \A i \in 1..Len(s) : s[i] \in Letters

\* str.lower()
lower(s) == [i \in 1..Len(s) |-> IF s[i] = "K" THEN "k" ELSE s[i]]

\* re.match(r'^\?+$', s): one or more half-width question marks and nothing else
\* (no text of the model holds a line terminator, which `$` would let through)
OnlyHalfQ(s) == s # <<>> /\ \A i \in 1..Len(s) : s[i] = HalfQ

\* mutant: the case-insensitive comparison used in the last branch as well
should_match_nocase(c, k) ==
    LET processed_content == normalize_content(c, k)
    IN IF k \in {<<FullQ>>, <<HalfQ>>} \/ Range(k) \subseteq QuestionMarks
       THEN OnlyHalfQ(processed_content)
       ELSE lower(processed_content) = lower(k)

should_match(c, k) ==
    LET processed_content == normalize_content(c, k)
    IN IF k \in {<<FullQ>>, <<HalfQ>>} \/ Range(k) \subseteq QuestionMarks
       THEN OnlyHalfQ(processed_content)
       ELSE IF isalpha(k)
            THEN lower(processed_content) = lower(k)
            ELSE processed_content = k

\* a call of should_match(content, keyword)
CallShouldMatch ==
    /\ mpc = "call"
    /\ matched' = should_match(content, keyword)
    /\ mpc' = "returned"
    /\ UNCHANGED <<content, keyword, peakVars>>

InitMatch ==
    /\ content \in Strings(MaxContentLen)
    /\ keyword \in Strings(MaxKeywordLen)
    /\ matched = "none"
    /\ mpc = "call"
    /\ times = <<>>
    /\ window_sec = DefaultWindowSec
    /\ pc = "idle"
    /\ left = 0
    /\ right = 0
    /\ windows = <<>>
    /\ selected = <<>>
    /\ idx = 0
    /\ emitted = <<>>

NextMatch == CallShouldMatch

SpecMatch == InitMatch /\ [][NextMatch]_vars

-----------------------------------------------------------------------------
(* Properties of find_peak_windows *)

n == Len(times)
Returned == pc = "done"

\* the strict-interval rule of the specification
StrictOverlap(a, b) == a.start < b.end /\ a.end > b.start

\* the windows the scan emitted, and the right index at which w was emitted
EmittedWins == {emitted[i].win : i \in 1..Len(emitted)}
EmitRight(w) == emitted[CHOOSE i \in 1..Len(emitted) : emitted[i].win = w].right

\* the position of w in the count-descending list
RankOf(w) == CHOOSE i \in 1..Len(windows) : windows[i] = w

NonDecreasing == \A i \in 1..(n - 1) : times[i].ts <= times[i + 1].ts
StrictlyIncreasing == \A i \in 1..(n - 1) : times[i].ts < times[i + 1].ts

\* the input is sorted and every emitted window is a different record
InputOK ==
    /\ NonDecreasing
    /\ \A i, j \in 1..Len(emitted) : emitted[i].win = emitted[j].win => i = j

PairwiseDisjoint(S) == \A a, b \in S : a # b => ~StrictOverlap(a, b)

\* the size of the largest set of emitted windows that are pairwise non-overlapping
MaxObtainable ==
    LET sizes == {Cardinality(S) : S \in {T \in SUBSET EmittedWins : PairwiseDisjoint(T)}}
    IN CHOOSE m \in sizes : \A k \in sizes : k <= m

\* C1: no two distinct windows of the returned list overlap under the strict rule
\* (a.start < b.end and a.end > b.start); windows that only touch may both be returned.
C1_NoOverlap ==
    Returned =>
        \A i, j \in 1..Len(selected) :
            i # j => ~StrictOverlap(selected[i], selected[j])

\* C1 witness: a returned list with two windows of positive width that touch,
\* while some emitted window was rejected
C1_Witness ==
    /\ Returned
    /\ Len(selected) < Len(windows)
    /\ \E i, j \in 1..Len(selected) :
          /\ selected[i].end = selected[j].start
          /\ selected[i].start < selected[i].end
          /\ selected[j].start < selected[j].end

\* C2: the scan emits one window per right index, and every emitted window has
\* 0 <= end - start <= window_sec*1000 and count = right - left + 1 for the
\* pointer pair that defined it.
C2_WindowBounds ==
    /\ pc = "scan" => Len(emitted) = right
    /\ \A k \in 1..Len(emitted) :
          LET e == emitted[k]
          IN /\ e.right = k - 1
             /\ e.win.start = times[e.left + 1].ts
             /\ e.win.end = times[e.right + 1].ts
             /\ 0 <= e.win.end - e.win.start
             /\ e.win.end - e.win.start <= window_sec * 1000
             /\ e.win.count = e.right - e.left + 1

\* C2 witness: the scan is over and some window was emitted after left had moved
C2_Witness ==
    /\ pc = "select"
    /\ \E k \in 1..Len(emitted) :
          emitted[k].left > 0 /\ emitted[k].win.count > 1

\* C3: the returned list is ordered by count descending, and two returned windows
\* of equal count appear in emission order (smaller right index first).
C3_Order ==
    Returned =>
        \A i, j \in 1..Len(selected) :
            i < j =>
                /\ selected[i].count >= selected[j].count
                /\ selected[i].count = selected[j].count =>
                       EmitRight(selected[i]) < EmitRight(selected[j])

\* C3 witness: a returned list with a tie and with a strict descent, whose first
\* window was not the first emitted
C3_Witness ==
    /\ Returned
    /\ Len(selected) >= 3
    /\ EmitRight(selected[1]) > 0
    /\ \E i \in 1..(Len(selected) - 1) : selected[i].count = selected[i + 1].count
    /\ \E i \in 1..(Len(selected) - 1) : selected[i].count > selected[i + 1].count

\* C4 as stated: the length of the returned list equals min(10, the size of the
\* largest set of pairwise non-overlapping emitted windows).
C4_Original ==
    Returned => Len(selected) = Min(TopK, MaxObtainable)

\* C4 amended: the length of the returned list is at most min(10, the size of the
\* largest set of pairwise non-overlapping emitted windows), and at least 1 when the
\* input is not empty; the greedy pass need not reach the largest set.
C4_Amended ==
    Returned =>
        /\ Len(selected) <= Min(TopK, MaxObtainable)
        /\ n >= 1 => Len(selected) >= 1

\* C4 witness: a returned list shorter than 10 and shorter than the largest set
C4_Witness ==
    /\ Returned
    /\ Len(selected) >= 1
    /\ Len(selected) < TopK
    /\ Len(selected) < MaxObtainable

\* all events lie within window_sec of each other
AllWithinWindow == n >= 1 /\ times[n].ts - times[1].ts <= window_sec * 1000

\* C5 as stated: when the n >= 1 events lie within window_sec of each other, exactly
\* one window is returned, it has count n, and every other emitted window is
\* rejected because it overlaps it.
C5_Original ==
    (Returned /\ AllWithinWindow) =>
        /\ Len(selected) = 1
        /\ selected[1].count = n
        /\ \A w \in EmittedWins : w # selected[1] => StrictOverlap(w, selected[1])

\* C5 amended: when the n >= 1 events lie within window_sec of each other, the first
\* returned window has count n and spans the whole input; every other emitted window
\* that ends after the first timestamp overlaps it and is rejected; every emitted
\* window that ends at the first timestamp (zero width, touching the start) does not
\* overlap it and is returned too, in count-descending order, as far as the cap of 10
\* allows. So for n >= 2 at least two windows are returned, and exactly one only for n = 1.
C5_Amended ==
    (Returned /\ AllWithinWindow) =>
        /\ Len(selected) >= 1
        /\ selected[1].count = n
        /\ selected[1].start = times[1].ts
        /\ selected[1].end = times[n].ts
        /\ \A w \in EmittedWins :
              w # selected[1] =>
                  IF w.end > times[1].ts
                  THEN StrictOverlap(w, selected[1]) /\ w \notin Range(selected)
                  ELSE /\ ~StrictOverlap(w, selected[1])
                       /\ Len(selected) < TopK => w \in Range(selected)
        /\ \A i \in 2..Len(selected) : selected[i].end = times[1].ts
        /\ n >= 2 => Len(selected) >= 2
        /\ n = 1 => Len(selected) = 1

\* C5 witness: at least three events within the window, not all at one instant, with
\* a rejected window and a returned zero-width window beside the count-n window
C5_Witness ==
    /\ Returned
    /\ AllWithinWindow
    /\ n >= 3
    /\ times[n].ts > times[1].ts
    /\ Len(selected) >= 2
    /\ Len(selected) < n

\* the events [(0,"a"),(30000,"a"),(61000,"b")] with window_sec = 60
Scenario6 ==
    /\ window_sec = 60
    /\ [i \in 1..n |-> <<times[i].ts, times[i].file>>]
           = <<<<0, "a">>, <<30000, "a">>, <<61000, "b">>>>

\* start, end and count of each window of a list
Shape(ws) == [i \in 1..Len(ws) |-> <<ws[i].start, ws[i].end, ws[i].count>>]

\* C6 as stated: the windows emitted at right = 0,1,2 have counts [1,2,2] and exactly
\* two windows are returned: {start:0,end:30000,count:2}, then {start:30000,end:61000,count:2}.
C6_Original ==
    (Returned /\ Scenario6) =>
        /\ [i \in 1..Len(emitted) |-> emitted[i].win.count] = <<1, 2, 2>>
        /\ Shape(selected) = <<<<0, 30000, 2>>, <<30000, 61000, 2>>>>

\* C6 amended: the windows emitted at right = 0,1,2 have counts [1,2,2] and three
\* windows are returned: {start:0,end:30000,count:2}, then the touching window
\* {start:30000,end:61000,count:2}, then the zero-width window {start:0,end:0,count:1}
\* of right = 0, which touches the start of the first and overlaps neither.
C6_Amended ==
    (Returned /\ Scenario6) =>
        /\ [i \in 1..Len(emitted) |-> emitted[i].win.count] = <<1, 2, 2>>
        /\ [i \in 1..Len(emitted) |-> emitted[i].right] = <<0, 1, 2>>
        /\ Shape(selected) = <<<<0, 30000, 2>>, <<30000, 61000, 2>>, <<0, 0, 1>>>>

\* C6 witness: find_peak_windows has returned on the scenario's input
C6_Witness == Returned /\ Scenario6 /\ Len(selected) = 3

\* C7: with window_sec = 0 and strictly increasing timestamps every emitted window has
\* count 1 and start = end, and the returned list is the windows of the first
\* min(10, n) events in emission order.
C7_ZeroWindow ==
    (window_sec = 0 /\ StrictlyIncreasing) =>
        /\ \A k \in 1..Len(emitted) :
              emitted[k].win.count = 1 /\ emitted[k].win.start = emitted[k].win.end
        /\ Returned =>
              selected = [i \in 1..Min(TopK, n) |-> emitted[i].win]

\* C7 witness: more than 10 events, so that the cap cuts the list
C7_Witness ==
    /\ Returned
    /\ window_sec = 0
    /\ StrictlyIncreasing
    /\ n > TopK
    /\ Len(selected) = TopK

\* C9: the window emitted at each right index is the maximal range ending there that
\* fits the budget: left is the smallest index i <= right with
\* ts[right] - ts[i] <= window_sec*1000, and left never decreases from one right index
\* to the next.
C9_MaximalRange ==
    /\ \A k \in 1..Len(emitted) :
          LET e == emitted[k]
              fits == {i \in 0..e.right :
                          times[e.right + 1].ts - times[i + 1].ts <= window_sec * 1000}
          IN /\ e.left \in fits
             /\ \A i \in fits : e.left <= i
             /\ k > 1 => emitted[k - 1].left <= e.left
    /\ Len(emitted) > 0 => left = emitted[Len(emitted)].left

\* C9 witness: left moved by two or more positions at one right index
C9_Witness ==
    \E k \in 2..Len(emitted) : emitted[k].left >= emitted[k - 1].left + 2

\* C10: when fewer than 10 windows are returned, every emitted window that is not
\* returned strictly overlaps a returned window that precedes it in the
\* count-descending order.
C10_GreedyMaximal ==
    (Returned /\ Len(selected) < TopK) =>
        \A w \in EmittedWins :
            w \notin Range(selected) =>
                \E i \in 1..Len(selected) :
                    /\ StrictOverlap(w, selected[i])
                    /\ RankOf(selected[i]) < RankOf(w)

\* C10 witness: fewer than 10 windows returned, two or more rejected, and a returned
\* window that touches another returned window
C10_Witness ==
    /\ Returned
    /\ Len(selected) < TopK
    /\ Len(selected) + 2 <= Len(windows)
    /\ \E i, j \in 1..Len(selected) :
          i # j /\ selected[i].end = selected[j].start

-----------------------------------------------------------------------------
(* Properties of should_match *)

MatchReturned == mpc = "returned"

HasQuestionMark(k) == \E i \in 1..Len(k) : k[i] \in QuestionMarks

\* a non-empty keyword that is neither alphabetic nor made of question marks only
OtherKeyword ==
    /\ keyword # <<>>
    /\ \E i \in 1..Len(keyword) : keyword[i] \notin Letters
    /\ \E i \in 1..Len(keyword) : keyword[i] \notin QuestionMarks

-----------------------------------------------------------------------------
TypeOK ==
    /\ pc \in {"scan", "select", "done", "idle"}
    /\ left \in 0..(MaxLongLen + 1)
    /\ right \in 0..(MaxLongLen + 1)
    /\ Len(selected) <= TopK
====
